---- MODULE Spec2Model ----
(***************************************************************************)
(* Model of the RecurrenceRule pack: the user-token converters of          *)
(* src/rrule_converter.ts and the formulas of src/pack.ts.                 *)
(*                                                                         *)
(* A JavaScript string is a sequence of one-character strings.  An         *)
(* optional value (a parameter that may be undefined, a result that may    *)
(* be null) is a sequence of length 0 or 1.                                *)
(***************************************************************************)
EXTENDS Integers, Sequences, FiniteSets, TLC

VARIABLES conv, input, token, out, now, cell, edit, query

convVars == <<conv, input, token, out>>

vars == <<conv, input, token, out, now, cell, edit, query>>

(***************************************************************************)
(* Characters and the String methods the converters use.                   *)
(***************************************************************************)
LowerLetters == <<"a", "b", "c", "d", "e", "f", "g", "h", "i", "j", "k", "l", "m", "n", "o", "p", "q", "r", "s", "t", "u", "v", "w", "x", "y", "z">>

UpperLetters == <<"A", "B", "C", "D", "E", "F", "G", "H", "I", "J", "K", "L", "M", "N", "O", "P", "Q", "R", "S", "T", "U", "V", "W", "X", "Y", "Z">>

Digits == <<"0", "1", "2", "3", "4", "5", "6", "7", "8", "9">>

Range(s) == {s[i] : i \in DOMAIN s}

IndexOf(c, s) == CHOOSE i \in DOMAIN s : s[i] = c

LowerChar(c) == IF c \in Range(UpperLetters) THEN LowerLetters[IndexOf(c, UpperLetters)] ELSE c

UpperChar(c) == IF c \in Range(LowerLetters) THEN UpperLetters[IndexOf(c, LowerLetters)] ELSE c

\* String.prototype.toLowerCase
toLowerCase(s) == [i \in 1..Len(s) |-> LowerChar(s[i])]

\* String.prototype.toUpperCase
toUpperCase(s) == [i \in 1..Len(s) |-> UpperChar(s[i])]

WhiteSpace == {" ", "\t", "\n"}

\* String.prototype.trim: drops the white space at both ends
trim(s) ==
  LET keep == {i \in 1..Len(s) : s[i] \notin WhiteSpace}
  IN  IF keep = {} THEN <<>>
      ELSE SubSeq(s, CHOOSE i \in keep : \A j \in keep : i <= j,
                     CHOOSE i \in keep : \A j \in keep : i >= j)

\* the class \w of a regular expression
IsWordChar(c) == c \in Range(LowerLetters) \cup Range(UpperLetters) \cup Range(Digits) \cup {"_"}

IsDigit(c) == c \in Range(Digits)

DigitValue(c) == IndexOf(c, Digits) - 1

(***************************************************************************)
(* Values of the rrule library that the converters return, and the         *)
(* outcome of a call: a returned value or a thrown error.                  *)
(***************************************************************************)
\* a Weekday: the base day and the optional occurrence modifier n
Weekday(day) == [weekday |-> day, n |-> <<>>]

\* Weekday.nth(n): the same day with the occurrence modifier n
nth(w, n) == [weekday |-> w.weekday, n |-> <<n>>]

NoError == [name |-> "", message |-> <<>>]

Return(v) == [ok |-> TRUE, value |-> <<v>>, error |-> NoError]

Throw(e) == [ok |-> FALSE, value |-> <<>>, error |-> e]

\* new CouldNotConvertError(...params): params are passed to Error, so the
\* message is the first parameter, or the empty string when there is none
CouldNotConvertError(params) ==
  [name |-> "CouldNotConvertError", message |-> IF params = <<>> THEN <<>> ELSE params[1]]

\* the TypeError of reading a property of null
TypeError == [name |-> "TypeError", message |-> <<>>]

(***************************************************************************)
(* src/rrule_converter.ts                                                  *)
(***************************************************************************)
\* the switch statement of convertUserWeekdayStringToRRuleConstant
WeekdaySwitch(s) ==
      CASE s \in {<<"1">>,
                  <<"m", "o", "n", "d", "a", "y">>,
                  <<"m", "o">>} -> Return(Weekday("MO"))
        [] s \in {<<"2">>,
                  <<"t", "u", "e", "s", "d", "a", "y">>,
                  <<"t", "u">>} -> Return(Weekday("TU"))
        [] s \in {<<"3">>,
                  <<"w", "e", "d", "n", "e", "s", "d", "a", "y">>,
                  <<"w", "e">>} -> Return(Weekday("WE"))
        [] s \in {<<"4">>,
                  <<"t", "h", "u", "r", "s", "d", "a", "y">>,
                  <<"t", "h">>} -> Return(Weekday("TH"))
        [] s \in {<<"5">>,
                  <<"f", "r", "i", "d", "a", "y">>,
                  <<"f", "r">>} -> Return(Weekday("FR"))
        [] s \in {<<"6">>,
                  <<"s", "a", "t", "u", "r", "d", "a", "y">>,
                  <<"s", "a">>} -> Return(Weekday("SA"))
        [] s \in {<<"7">>,
                  <<"s", "u", "n", "d", "a", "y">>,
                  <<"s", "u">>} -> Return(Weekday("SU"))
        [] OTHER -> Throw(CouldNotConvertError(<<>>))

\* a converter that forgets to trim its argument
WeekdayNotTrimmed(weekday) == WeekdaySwitch(toLowerCase(weekday))

convertUserWeekdayStringToRRuleConstant(weekday) == WeekdaySwitch(trim(toLowerCase(weekday)))

convertUserMonthStringToRRuleConstant(month) ==
  LET s == trim(toLowerCase(month))
  IN  CASE s \in {<<"1">>,
                  <<"j", "a", "n", "u", "a", "r", "y">>,
                  <<"j", "a", "n">>} -> Return(1)
        [] s \in {<<"2">>,
                  <<"f", "e", "b", "r", "u", "a", "r", "y">>,
                  <<"f", "e", "b">>} -> Return(2)
        [] s \in {<<"3">>,
                  <<"m", "a", "r", "c", "h">>,
                  <<"m", "a">>} -> Return(3)
        [] s \in {<<"4">>,
                  <<"a", "p", "r", "i", "l">>,
                  <<"a", "p", "r">>} -> Return(4)
        [] s \in {<<"5">>,
                  <<"m", "a", "y">>} -> Return(5)
        [] s \in {<<"6">>,
                  <<"j", "u", "n", "e">>,
                  <<"j", "u", "n">>} -> Return(6)
        [] s \in {<<"7">>,
                  <<"j", "u", "l", "y">>,
                  <<"j", "u", "l">>} -> Return(7)
        [] s \in {<<"8">>,
                  <<"a", "u", "g", "u", "s", "t">>,
                  <<"a", "u", "g">>} -> Return(8)
        [] s \in {<<"9">>,
                  <<"s", "e", "p", "t", "e", "m", "b", "e", "r">>,
                  <<"s", "e", "p">>} -> Return(9)
        [] s \in {<<"1", "0">>,
                  <<"o", "c", "t", "o", "b", "e", "r">>,
                  <<"o", "c", "t">>} -> Return(10)
        [] s \in {<<"1", "1">>,
                  <<"n", "o", "v", "e", "m", "b", "e", "r">>,
                  <<"n", "o", "v">>} -> Return(11)
        [] s \in {<<"1", "2">>,
                  <<"d", "e", "c", "e", "m", "b", "e", "r">>,
                  <<"d", "e", "c">>} -> Return(12)
        [] OTHER -> Throw(CouldNotConvertError(<<>>))

\* the object literal of the function: its own property names and their values
frequencyStringToRRuleConstants ==
  [k \in {<<"Y", "E", "A", "R", "L", "Y">>,
          <<"M", "O", "N", "T", "H", "L", "Y">>,
          <<"W", "E", "E", "K", "L", "Y">>,
          <<"D", "A", "I", "L", "Y">>,
          <<"H", "O", "U", "R", "L", "Y">>,
          <<"M", "I", "N", "U", "T", "E", "L", "Y">>,
          <<"S", "E", "C", "O", "N", "D", "L", "Y">>}
     |-> CASE k = <<"Y", "E", "A", "R", "L", "Y">> -> "YEARLY"
          [] k = <<"M", "O", "N", "T", "H", "L", "Y">> -> "MONTHLY"
          [] k = <<"W", "E", "E", "K", "L", "Y">> -> "WEEKLY"
          [] k = <<"D", "A", "I", "L", "Y">> -> "DAILY"
          [] k = <<"H", "O", "U", "R", "L", "Y">> -> "HOURLY"
          [] k = <<"M", "I", "N", "U", "T", "E", "L", "Y">> -> "MINUTELY"
          [] k = <<"S", "E", "C", "O", "N", "D", "L", "Y">> -> "SECONDLY"]

\* a converter that accepts any prefix of a frequency name
FrequencyByPrefix(frequency) ==
  LET f == toUpperCase(trim(frequency))
      hits == {k \in DOMAIN frequencyStringToRRuleConstants :
                 Len(f) >= 1 /\ Len(f) <= Len(k) /\ SubSeq(k, 1, Len(f)) = f}
  IN  IF hits # {}
      THEN Return(frequencyStringToRRuleConstants[CHOOSE k \in hits : TRUE])
      ELSE Throw(CouldNotConvertError(<<>>))

convertFrequencyStringToRRuleConstant(frequency) ==
  LET f == toUpperCase(trim(frequency))
  IN  IF f \in DOMAIN frequencyStringToRRuleConstants
      THEN Return(frequencyStringToRRuleConstants[f])
      ELSE Throw(CouldNotConvertError(<<>>))

\* s.match(/\w+/): null, or the array holding the first maximal run of word
\* characters (no g flag and no group, so the array has one element)
MatchWord(s) ==
  LET starts == {i \in 1..Len(s) : IsWordChar(s[i])}
  IN  IF starts = {} THEN [isNull |-> TRUE, array |-> <<>>]
      ELSE LET b == CHOOSE i \in starts : \A j \in starts : i <= j
               stops == {i \in b..Len(s) : i = Len(s) \/ ~IsWordChar(s[i + 1])}
               e == CHOOSE i \in stops : \A j \in stops : i <= j
           IN  [isNull |-> FALSE, array |-> <<SubSeq(s, b, e)>>]

\* s.match(/^[-+]?[0-9]+/): null, or the array holding the matched prefix
MatchPrefix(s) ==
  LET b == IF Len(s) >= 1 /\ s[1] \in {"-", "+"} THEN 2 ELSE 1
      nonDigits == {i \in b..Len(s) : ~IsDigit(s[i])}
      e == IF nonDigits = {} THEN Len(s)
           ELSE (CHOOSE i \in nonDigits : \A j \in nonDigits : i <= j) - 1
  IN  IF e >= b THEN [isNull |-> FALSE, array |-> <<SubSeq(s, 1, e)>>]
      ELSE [isNull |-> TRUE, array |-> <<>>]

RECURSIVE DigitsValue(_)
DigitsValue(s) == IF s = <<>> THEN 0 ELSE 10 * DigitsValue(SubSeq(s, 1, Len(s) - 1)) + DigitValue(s[Len(s)])

\* parseInt of a string matched by /^[-+]?[0-9]+/
parseInt(s) ==
  IF s[1] = "-" THEN 0 - DigitsValue(Tail(s))
  ELSE IF s[1] = "+" THEN DigitsValue(Tail(s))
  ELSE DigitsValue(s)

convertUserByWeekdayToRRuleConstant(byWeekday) ==
  LET s == trim(toLowerCase(byWeekday))
      byWeekdayWordMatch == MatchWord(s)
  IN  IF byWeekdayWordMatch.isNull THEN Throw(TypeError)
      ELSE IF Len(byWeekdayWordMatch.array) # 1 THEN Throw(CouldNotConvertError(<<>>))
      ELSE LET weekday == byWeekdayWordMatch.array[1]
               day == convertUserWeekdayStringToRRuleConstant(weekday)
           IN  IF ~MatchPrefix(s).isNull
               THEN IF day.ok THEN Return(nth(day.value[1], parseInt(MatchPrefix(s).array[1])))
                    ELSE day
               ELSE day

(***************************************************************************)
(* The tokens a user may type.  A token is a lower-case word, preceded by  *)
(* an optional numeric prefix, written in some letter case and surrounded  *)
(* by some white space.                                                    *)
(***************************************************************************)
WeekdayNames ==
  <<<<"m", "o", "n", "d", "a", "y">>,
    <<"t", "u", "e", "s", "d", "a", "y">>,
    <<"w", "e", "d", "n", "e", "s", "d", "a", "y">>,
    <<"t", "h", "u", "r", "s", "d", "a", "y">>,
    <<"f", "r", "i", "d", "a", "y">>,
    <<"s", "a", "t", "u", "r", "d", "a", "y">>,
    <<"s", "u", "n", "d", "a", "y">>>>

WeekdayAbbreviations ==
  <<<<"m", "o">>,
    <<"t", "u">>,
    <<"w", "e">>,
    <<"t", "h">>,
    <<"f", "r">>,
    <<"s", "a">>,
    <<"s", "u">>>>

WeekdayConstants == <<"MO", "TU", "WE", "TH", "FR", "SA", "SU">>

MonthNames ==
  <<<<"j", "a", "n", "u", "a", "r", "y">>,
    <<"f", "e", "b", "r", "u", "a", "r", "y">>,
    <<"m", "a", "r", "c", "h">>,
    <<"a", "p", "r", "i", "l">>,
    <<"m", "a", "y">>,
    <<"j", "u", "n", "e">>,
    <<"j", "u", "l", "y">>,
    <<"a", "u", "g", "u", "s", "t">>,
    <<"s", "e", "p", "t", "e", "m", "b", "e", "r">>,
    <<"o", "c", "t", "o", "b", "e", "r">>,
    <<"n", "o", "v", "e", "m", "b", "e", "r">>,
    <<"d", "e", "c", "e", "m", "b", "e", "r">>>>

MonthAbbreviations ==
  <<<<"j", "a", "n">>,
    <<"f", "e", "b">>,
    <<"m", "a", "r">>,
    <<"a", "p", "r">>,
    <<"m", "a", "y">>,
    <<"j", "u", "n">>,
    <<"j", "u", "l">>,
    <<"a", "u", "g">>,
    <<"s", "e", "p">>,
    <<"o", "c", "t">>,
    <<"n", "o", "v">>,
    <<"d", "e", "c">>>>

NumericCodes ==
  <<<<"1">>,
    <<"2">>,
    <<"3">>,
    <<"4">>,
    <<"5">>,
    <<"6">>,
    <<"7">>,
    <<"8">>,
    <<"9">>,
    <<"1", "0">>,
    <<"1", "1">>,
    <<"1", "2">>>>

FrequencyNames ==
  <<<<"y", "e", "a", "r", "l", "y">>,
    <<"m", "o", "n", "t", "h", "l", "y">>,
    <<"w", "e", "e", "k", "l", "y">>,
    <<"d", "a", "i", "l", "y">>,
    <<"h", "o", "u", "r", "l", "y">>,
    <<"m", "i", "n", "u", "t", "e", "l", "y">>,
    <<"s", "e", "c", "o", "n", "d", "l", "y">>>>

FrequencyConstants == <<"YEARLY", "MONTHLY", "WEEKLY", "DAILY", "HOURLY", "MINUTELY", "SECONDLY">>

\* words that no converter lists: abbreviations of the wrong length, numbers out
\* of range, several words, no word at all
OtherWords ==
  {<<>>,
   <<"x", "y", "z">>,
   <<"m", "a">>,
   <<"m", "o", "n">>,
   <<"s", "u", "n">>,
   <<"s", "e", "p", "t">>,
   <<"0">>,
   <<"1", "3">>,
   <<"y", "e", "a", "r">>,
   <<"d", "a", "y">>,
   <<"w", "e", "e", "k">>,
   <<"d", "a", "i">>,
   <<"s", "e", "c", "o", "n", "d", "l">>,
   <<"f", "r", "e", "q">>,
   <<"-">>,
   <<"_">>,
   <<"f", "r", ",", "s", "a">>,
   <<"m", "o", "n", "d", "a", "y", " ", "t", "u", "e", "s", "d", "a", "y">>,
   <<" ", "f", "r", "i", "d", "a", "y">>,
   <<"f", "r", " ", "s", "a">>,
   <<"m", " ", "o">>}

Words ==
  Range(WeekdayNames) \cup Range(WeekdayAbbreviations) \cup Range(MonthNames)
    \cup Range(MonthAbbreviations) \cup Range(NumericCodes) \cup Range(FrequencyNames)
    \cup OtherWords

Prefixes == {<<>>, <<"1">>, <<"-", "1">>, <<"2">>, <<"+", "2">>, <<"-", "3">>}

Styles == {"lower", "upper", "capital", "mixed"}

Pads == {"none", "left", "right", "both"}

Inputs == [prefix : Prefixes, word : Words, style : Styles, pad : Pads]

\* the word of an input in its letter case
Styled(style, s) ==
  [i \in 1..Len(s) |->
     CASE style = "upper" -> UpperChar(s[i])
       [] style = "capital" -> IF i = 1 THEN UpperChar(s[i]) ELSE s[i]
       [] style = "mixed" -> IF i % 2 = 0 THEN UpperChar(s[i]) ELSE s[i]
       [] OTHER -> s[i]]

Padded(pad, s) ==
  CASE pad = "left" -> <<" ">> \o s
    [] pad = "right" -> s \o <<" ", "\t">>
    [] pad = "both" -> <<"\n", " ">> \o s \o <<" ">>
    [] OTHER -> s

\* the lower-case, trimmed text of an input
Base(i) == i.prefix \o i.word

\* the string the user typed
TokenOf(i) == Padded(i.pad, Styled(i.style, Base(i)))

(***************************************************************************)
(* The converters as a state machine: the initial state holds the token    *)
(* the user typed, and one step calls one converter on it.                 *)
(***************************************************************************)
NoOutcome == [ok |-> TRUE, value |-> <<>>, error |-> NoError]

NoInput == [prefix |-> <<>>, word |-> <<>>, style |-> "lower", pad |-> "none"]

InitConv ==
  /\ conv = "none"
  /\ input \in Inputs
  /\ token = TokenOf(input)
  /\ out = NoOutcome
  /\ now = 0 /\ cell = <<>>
  /\ edit = [name |-> "none"] /\ query = [name |-> "none"]

Call(name, outcome) ==
  /\ conv = "none"
  /\ conv' = name
  /\ out' = outcome
  /\ UNCHANGED <<input, token, now, cell, edit, query>>

ConvertWeekday == Call("weekday", convertUserWeekdayStringToRRuleConstant(token))

ConvertMonth == Call("month", convertUserMonthStringToRRuleConstant(token))

ConvertFrequency == Call("frequency", convertFrequencyStringToRRuleConstant(token))

ConvertByWeekday == Call("byweekday", convertUserByWeekdayToRRuleConstant(token))

NextConv == ConvertWeekday \/ ConvertMonth \/ ConvertFrequency \/ ConvertByWeekday

SpecConv == InitConv /\ [][NextConv]_vars

(***************************************************************************)
(* Properties of the converters.                                           *)
(***************************************************************************)
RECURSIVE Stripped(_)
\* a text without the white space around it
Stripped(s) ==
  IF s = <<>> THEN s
  ELSE IF Head(s) \in WhiteSpace THEN Stripped(Tail(s))
  ELSE IF s[Len(s)] \in WhiteSpace THEN Stripped(SubSeq(s, 1, Len(s) - 1))
  ELSE s

\* the text of the input, whatever its letter case and the white space around it
Literal == Stripped(Base(input))

\* msg contains the text lit
Carries(msg, lit) == \E i \in 0..(Len(msg) - Len(lit)) : SubSeq(msg, i + 1, i + Len(lit)) = lit

Failed(name) == ~out.ok /\ out.error.name = name

FieldNames ==
  [weekday |-> <<"w", "e", "e", "k", "d", "a", "y">>,
   month |-> <<"m", "o", "n", "t", "h">>,
   frequency |-> <<"f", "r", "e", "q", "u", "e", "n", "c", "y">>,
   byweekday |-> <<"b", "y", "w", "e", "e", "k", "d", "a", "y">>]

\* C1: for every month m in 1..12 the full English name, the three-letter
\* abbreviation and the number m, in any letter case and with white space
\* around them, are all converted to the month number m.
C1_MonthAliasesAgree ==
  \A m \in 1..12 :
    (conv = "month" /\ Literal \in {MonthNames[m], MonthAbbreviations[m], NumericCodes[m]})
      => out = Return(m)

\* C2: for every weekday d in 1..7 the full English name, the two-letter
\* abbreviation and the number d, in any letter case and with white space
\* around them, are converted to the weekday constant of d, and every other
\* token fails with CouldNotConvertError.
C2_WeekdayConversion ==
  conv = "weekday" =>
    IF \E d \in 1..7 : Literal \in {WeekdayNames[d], WeekdayAbbreviations[d], NumericCodes[d]}
    THEN \A d \in 1..7 :
           Literal \in {WeekdayNames[d], WeekdayAbbreviations[d], NumericCodes[d]}
             => out = Return(Weekday(WeekdayConstants[d]))
    ELSE Failed("CouldNotConvertError")

\* C2 witness: " sUnDaY " written in mixed case between white space was converted
C2_Witness ==
  /\ conv = "weekday" /\ Literal = WeekdayNames[7]
  /\ input.style = "mixed" /\ input.pad = "both"
  /\ out = Return(Weekday("SU"))

\* C3: a weekday name or abbreviation w preceded by a signed integer n is
\* converted to the weekday of w with the occurrence modifier n, and w alone to
\* the weekday of w with no modifier.
C3_ByWeekdayPrefix ==
  \A d \in 1..7 :
    (conv = "byweekday" /\ input.word \in {WeekdayNames[d], WeekdayAbbreviations[d]})
      => out = Return(IF input.prefix = <<>> THEN Weekday(WeekdayConstants[d])
                      ELSE nth(Weekday(WeekdayConstants[d]), parseInt(input.prefix)))

\* C4: the error of a rejected token is a CouldNotConvertError that carries the
\* offending literal and the field it was meant for.
C4_ErrorCarriesLiteral ==
  (conv # "none" /\ ~out.ok)
    => /\ out.error.name = "CouldNotConvertError"
       /\ Carries(out.error.message, Literal)
       /\ Carries(out.error.message, FieldNames[conv])

\* C5: the frequency converter returns a code exactly when the trimmed input
\* is, ignoring letter case, one of the seven full frequency names, and then
\* the code of that name; every other input fails with CouldNotConvertError.
C5_FrequencyExactMatch ==
  conv = "frequency" =>
    IF \E f \in 1..7 : Literal = FrequencyNames[f]
    THEN \A f \in 1..7 : Literal = FrequencyNames[f] => out = Return(FrequencyConstants[f])
    ELSE Failed("CouldNotConvertError")

\* C5 witness: the abbreviation "Year" was rejected
C5_Witness ==
  /\ conv = "frequency" /\ Literal = <<"y", "e", "a", "r">> /\ input.style = "capital"
  /\ Failed("CouldNotConvertError")

(***************************************************************************)
(* Bounds of the model.  Time is counted in seconds from Epoch, which      *)
(* stands for Monday 1 January 2024, 00:00:00 (the anchor of the           *)
(* specification's examples); the calendar is followed up to Horizon.      *)
(***************************************************************************)
Horizon == 1100

MaxClock == 2

(***************************************************************************)
(* src/utils/object.helpers.ts and src/utils/string.helpers.ts             *)
(***************************************************************************)
Undefined == <<>>

\* an object is a function from its keys; a property that may be undefined
\* holds Undefined or <<value>>
deleteUndefinedProps(o) == [k \in {key \in DOMAIN o : o[key] # Undefined} |-> o[k]]

\* a spread in which the first object wins
SpreadReversed(a, b) == [k \in DOMAIN a \cup DOMAIN b |-> IF k \in DOMAIN a THEN a[k] ELSE b[k]]

\* {...a, ...b}
Spread(a, b) == [k \in DOMAIN a \cup DOMAIN b |-> IF k \in DOMAIN b THEN b[k] ELSE a[k]]

(***************************************************************************)
(* A rule string is a sequence of symbols.  A symbol is one character      *)
(* (kind "char") or one KEY=VALUE component of the rule grammar (kind      *)
(* "component"), which is a run of ordinary characters and holds no quote, *)
(* backslash or control character.                                         *)
(***************************************************************************)
Char(c) == [kind |-> "char", text |-> c, value |-> ("" :> 0)]

\* the component KEY=VALUE; its value is filed under its key
Component(key, v) == [kind |-> "component", text |-> key, value |-> (key :> v)]

\* a component whose text after the = sign is no value of the grammar
Malformed(key) == [kind |-> "component", text |-> key, value |-> ("" :> 0)]

HasValue(sym) == sym.text \in DOMAIN sym.value

ValueOf(sym) == sym.value[sym.text]

IsChar(sym, c) == sym.kind = "char" /\ sym.text = c

SyntaxError == [name |-> "SyntaxError", message |-> <<>>]

\* JSON.stringify of one character of a string
JsonEscaped(sym) ==
  CASE IsChar(sym, "\n") -> <<Char("\\"), Char("n")>>
    [] IsChar(sym, "\t") -> <<Char("\\"), Char("t")>>
    [] IsChar(sym, "\r") -> <<Char("\\"), Char("r")>>
    [] IsChar(sym, "\f") -> <<Char("\\"), Char("f")>>
    [] IsChar(sym, "\"") -> <<Char("\\"), Char("\"")>>
    [] IsChar(sym, "\\") -> <<Char("\\"), Char("\\")>>
    [] OTHER -> <<sym>>

RECURSIVE JsonStringified(_)
JsonStringified(s) == IF s = <<>> THEN <<>> ELSE JsonEscaped(Head(s)) \o JsonStringified(Tail(s))

\* the line terminators that JSON.stringify leaves as they are; the . of a
\* regular expression matches no line terminator
LineSeparator == Char("U+2028")

ParagraphSeparator == Char("U+2029")

\* JSON.stringify({s}).match(/^{"s":\s*"(?<s>.*)"}$/).groups.s: when .* cannot
\* run to the closing quote there is no match, and .groups of null is read
escapeControlCodes(s) ==
  LET json == JsonStringified(s)
  IN  IF \E i \in DOMAIN json : json[i] \in {LineSeparator, ParagraphSeparator}
      THEN Throw(TypeError)
      ELSE Return(json)

RECURSIVE JsonParsed(_)
\* the string a JSON string literal with the body s denotes, or a SyntaxError
JsonParsed(s) ==
  IF s = <<>> THEN Return(<<>>)
  ELSE IF IsChar(s[1], "\\")
  THEN IF Len(s) >= 2 /\ s[2].kind = "char" /\ s[2].text \in {"n", "t", "r", "f", "/", "\"", "\\"}
       THEN LET rest == JsonParsed(SubSeq(s, 3, Len(s)))
                c == CASE s[2].text = "n" -> "\n" [] s[2].text = "t" -> "\t"
                       [] s[2].text = "r" -> "\r" [] s[2].text = "f" -> "\f"
                       [] OTHER -> s[2].text
            IN  IF rest.ok THEN Return(<<Char(c)>> \o rest.value[1]) ELSE rest
       ELSE Throw(SyntaxError)
  ELSE IF s[1].kind = "char" /\ s[1].text \in {"\n", "\t", "\r", "\f", "\""}
  THEN Throw(SyntaxError)
  ELSE LET rest == JsonParsed(Tail(s))
       IN  IF rest.ok THEN Return(<<s[1]>> \o rest.value[1]) ELSE rest

\* JSON.parse(`{"s": "${s}"}`).s
unescapeControlCodes(s) == JsonParsed(s)

(***************************************************************************)
(* The rrule library, which src/pack.ts imports: the rule constructor, the *)
(* rule string grammar, the occurrence generator and the queries, as the   *)
(* specification describes them.                                           *)
(***************************************************************************)
OptionKeys ==
  {"freq", "dtstart", "interval", "wkst", "count", "until", "tzid", "bysetpos", "bymonth",
   "bymonthday", "byyearday", "byweekno", "byweekday", "byhour", "byminute", "bysecond"}

\* the grammar's keys and the options they set; the anchor and its zone stand on
\* a line of their own before the rule
GrammarKeys ==
  [DTSTART |-> "dtstart", TZID |-> "tzid", FREQ |-> "freq", INTERVAL |-> "interval",
   COUNT |-> "count", UNTIL |-> "until", WKST |-> "wkst", BYSETPOS |-> "bysetpos",
   BYMONTH |-> "bymonth", BYMONTHDAY |-> "bymonthday", BYYEARDAY |-> "byyearday",
   BYWEEKNO |-> "byweekno", BYDAY |-> "byweekday", BYHOUR |-> "byhour",
   BYMINUTE |-> "byminute", BYSECOND |-> "bysecond"]

\* the fixed order of the canonical rendering
RenderOrder ==
  <<"FREQ", "INTERVAL", "COUNT", "UNTIL", "WKST", "BYSETPOS", "BYMONTH", "BYMONTHDAY",
    "BYYEARDAY", "BYWEEKNO", "BYDAY", "BYHOUR", "BYMINUTE", "BYSECOND">>

ValidationError(field) == [name |-> "ValidationError", message |-> <<field>>]

ParseError(kind) == [name |-> "ParseError", message |-> <<kind>>]

Has(o, k) == k \in DOMAIN o

\* the valid range of a by-field
InRange(k, v) ==
  CASE k = "bymonth" -> v \in 1..12
    [] k = "bymonthday" -> v \in (-31..-1) \cup (1..31)
    [] k = "byyearday" -> v \in (-366..-1) \cup (1..366)
    [] k = "byweekno" -> v \in (-53..-1) \cup (1..53)
    [] k = "byhour" -> v \in 0..23
    [] k = "byminute" -> v \in 0..59
    [] k = "bysecond" -> v \in 0..59
    [] k = "byweekday" -> v.n # <<0>>
    [] OTHER -> TRUE

ByFields ==
  {"bysetpos", "bymonth", "bymonthday", "byyearday", "byweekno", "byweekday", "byhour",
   "byminute", "bysecond"}

\* the option the normalizer rejects first, if any
Invalid(o) ==
  {k \in DOMAIN o :
     \/ k = "until" /\ Has(o, "count")
     \/ k = "interval" /\ o[k][1] < 1
     \/ k = "count" /\ o[k][1] < 0
     \/ k \in ByFields /\ \E i \in DOMAIN o[k][1] : ~InRange(k, o[k][1][i])}

\* new RRule(options) at the time clock: the options as given and the options
\* with their defaults, or a validation error
RRule(o, clock) ==
  IF ~Has(o, "freq") THEN Throw(ValidationError("freq"))
  ELSE IF Invalid(o) # {} THEN Throw(ValidationError(CHOOSE k \in Invalid(o) : TRUE))
  ELSE Return([origOptions |-> o,
               options |-> Spread([dtstart |-> <<clock>>, interval |-> <<1>>,
                                   wkst |-> <<Weekday("MO")>>], o)])

\* the components of the keys in order that the options o hold
RECURSIVE Rendered(_, _)
Rendered(keys, o) ==
  IF keys = <<>> THEN <<>>
  ELSE LET k == GrammarKeys[Head(keys)]
           shown == /\ Has(o, k)
                    /\ ~(k = "interval" /\ o[k] = <<1>>)
                    /\ ~(k = "wkst" /\ o[k] = <<Weekday("MO")>>)
       IN  (IF shown THEN <<Component(Head(keys), o[k][1])>> ELSE <<>>) \o Rendered(Tail(keys), o)

\* rule.toString(): the line of the anchor the caller gave, if any, and the
\* rule's components in the fixed order
toString(rule) ==
  LET o == rule.origOptions
      anchor == Rendered(<<"DTSTART", "TZID">>, o)
  IN  (IF anchor = <<>> THEN <<>> ELSE anchor \o <<Char("\n")>>) \o Rendered(RenderOrder, o)

\* the options that the components of a rule string set
Parsed(s) ==
  LET at(k) == {i \in DOMAIN s : s[i].kind = "component" /\ s[i].text \in DOMAIN GrammarKeys
                                 /\ GrammarKeys[s[i].text] = k}
  IN  [k \in {key \in OptionKeys : at(key) # {}} |->
         <<ValueOf(s[CHOOSE i \in at(k) : \A j \in at(k) : j <= i])>>]

\* rrulestr(s) at the time clock: the rule of a rule string, or the error of
\* the parser or of the normalizer
rrulestr(s, clock) ==
  IF \E i \in DOMAIN s : s[i].kind = "char" /\ s[i].text # "\n"
  THEN Throw(ParseError("Unrecognized"))
  ELSE IF \E i \in DOMAIN s : s[i].kind = "component" /\ s[i].text \notin DOMAIN GrammarKeys
  THEN Throw(ParseError("UnknownKey"))
  ELSE IF \E i \in DOMAIN s : s[i].kind = "component" /\ ~HasValue(s[i])
  THEN Throw(ParseError("MalformedValue"))
  ELSE RRule(Parsed(s), clock)

(***************************************************************************)
(* The occurrence generator.  An instant t is a number of seconds since    *)
(* Epoch; its civil fields are those of January 2024, which Horizon does   *)
(* not leave.                                                              *)
(***************************************************************************)
SecondOf(t) == t % 60

MinuteOf(t) == (t \div 60) % 60

HourOf(t) == (t \div 3600) % 24

DayOf(t) == t \div 86400

MonthDayOf(t) == 1 + DayOf(t)

MonthOf(t) == 1

YearDayOf(t) == 1 + DayOf(t)

WeekNoOf(t) == 1 + (DayOf(t) \div 7)

WeekdayOf(t) == WeekdayConstants[(DayOf(t) % 7) + 1]

\* the rank of a frequency, from the coarsest (1, yearly) to the finest (7)
Rank(freq) == CHOOSE i \in DOMAIN FrequencyConstants : FrequencyConstants[i] = freq

\* the period of the instant t: the frequency counts periods, and a week
\* begins on the day wkst
PeriodOf(freq, wkst, t) ==
  CASE freq = "SECONDLY" -> t
    [] freq = "MINUTELY" -> t \div 60
    [] freq = "HOURLY" -> t \div 3600
    [] freq = "DAILY" -> DayOf(t)
    [] freq = "WEEKLY" ->
         LET start == CHOOSE i \in DOMAIN WeekdayConstants : WeekdayConstants[i] = wkst.weekday
         IN  (DayOf(t) + ((8 - start) % 7)) \div 7
    [] OTHER -> 0

Vals(o, k) == Range(o[k][1])

\* the instant t has the weekday w, and is its n-th occurrence in the month
\* or year when w has a modifier and the frequency groups by month or year
OnWeekday(freq, w, t) ==
  /\ w.weekday = WeekdayOf(t)
  /\ \/ w.n = <<>>
     \/ freq \notin {"MONTHLY", "YEARLY"}
     \/ freq = "MONTHLY" /\ w.n[1] > 0 /\ ((MonthDayOf(t) - 1) \div 7) + 1 = w.n[1]
     \/ freq = "MONTHLY" /\ w.n[1] < 0 /\ ((31 - MonthDayOf(t)) \div 7) + 1 = 0 - w.n[1]
     \/ freq = "YEARLY" /\ w.n[1] > 0 /\ ((YearDayOf(t) - 1) \div 7) + 1 = w.n[1]
     \/ freq = "YEARLY" /\ w.n[1] < 0 /\ ((366 - YearDayOf(t)) \div 7) + 1 = 0 - w.n[1]

\* the by-field k of the options accepts the instant t
Accepts(o, k, t) ==
  CASE k = "bymonth" -> MonthOf(t) \in Vals(o, k)
    [] k = "bymonthday" -> {MonthDayOf(t), MonthDayOf(t) - 32} \cap Vals(o, k) # {}
    [] k = "byyearday" -> {YearDayOf(t), YearDayOf(t) - 367} \cap Vals(o, k) # {}
    [] k = "byweekno" -> {WeekNoOf(t), WeekNoOf(t) - 53} \cap Vals(o, k) # {}
    [] k = "byweekday" -> \E w \in Vals(o, k) : OnWeekday(o.freq[1], w, t)
    [] k = "byhour" -> HourOf(t) \in Vals(o, k)
    [] k = "byminute" -> MinuteOf(t) \in Vals(o, k)
    [] k = "bysecond" -> SecondOf(t) \in Vals(o, k)
    [] OTHER -> TRUE

\* the civil field named f of the instant t
Field(f, t) ==
  CASE f = "second" -> <<SecondOf(t)>>
    [] f = "minute" -> <<MinuteOf(t)>>
    [] f = "hour" -> <<HourOf(t)>>
    [] f = "weekday" -> <<WeekdayOf(t)>>
    [] f = "monthday" -> <<MonthDayOf(t)>>
    [] OTHER -> <<MonthOf(t)>>

\* the fields finer than the frequency that no by-field sets: an occurrence
\* has them from the anchor
AnchorFields(o) ==
  LET r == Rank(o.freq[1])
      dayFree == ~(Has(o, "byweekno") \/ Has(o, "byyearday") \/ Has(o, "bymonthday")
                     \/ Has(o, "byweekday"))
  IN  {f \in {"second", "minute", "hour", "weekday", "monthday", "month"} :
         \/ f = "second" /\ r < 7 /\ ~Has(o, "bysecond")
         \/ f = "minute" /\ r < 6 /\ ~Has(o, "byminute")
         \/ f = "hour" /\ r < 5 /\ ~Has(o, "byhour")
         \/ f = "weekday" /\ r = 3 /\ dayFree
         \/ f = "monthday" /\ r <= 2 /\ dayFree
         \/ f = "month" /\ r = 1 /\ dayFree /\ ~Has(o, "bymonth")}

Min(a, b) == IF a <= b THEN a ELSE b

\* the candidates of the periods of the rule from the anchor on, ascending:
\* the instants of every interval-th period that all by-fields accept
Candidates(o) ==
  LET freq == o.freq[1]
      wkst == o.wkst[1]
      anchor == o.dtstart[1]
      step == o.interval[1]
      first == PeriodOf(freq, wkst, anchor)
      filters == ByFields \cap DOMAIN o
      fixed == AnchorFields(o)
  IN  SelectSeq([i \in 1..(Horizon + 1 - anchor) |-> anchor + i - 1],
                LAMBDA t : /\ (PeriodOf(freq, wkst, t) - first) % step = 0
                           /\ \A k \in filters : Accepts(o, k, t)
                           /\ \A f \in fixed : Field(f, t) = Field(f, anchor))

\* positional selection within each period's ordered candidates
Positioned(o, cands) ==
  IF ~Has(o, "bysetpos") THEN cands
  ELSE LET period(t) == PeriodOf(o.freq[1], o.wkst[1], t)
           same(t) == {j \in DOMAIN cands : period(cands[j]) = period(t)}
           pos(t) == Cardinality({j \in same(t) : cands[j] <= t})
       IN  SelectSeq(cands, LAMBDA t : {pos(t), pos(t) - Cardinality(same(t)) - 1}
                                          \cap Vals(o, "bysetpos") # {})

\* the full ascending sequence of the occurrences of a rule
Occurrences(rule) ==
  LET o == rule.options
      chosen == Positioned(o, Candidates(o))
      bounded == IF Has(o, "until") THEN SelectSeq(chosen, LAMBDA t : t <= o.until[1])
                 ELSE chosen
  IN  IF Has(o, "count") THEN SubSeq(bounded, 1, Min(o.count[1], Len(bounded))) ELSE bounded

\* the instants of the window
Instants == 0..Horizon

\* how many occurrences the stop predicate accepts before it first rejects
\* one; it is called with each occurrence and its 0-based index
Accepted(occ, iterator) ==
  LET rejected == {i \in 0..(Len(occ) - 1) : ~iterator[occ[i + 1], i]}
  IN  IF rejected = {} THEN Len(occ) ELSE CHOOSE i \in rejected : \A j \in rejected : i <= j

\* rule.all(iterator): the occurrences up to the first one that the stop
\* predicate rejects, which is not part of the result
all(rule, iterator) == LET occ == Occurrences(rule) IN SubSeq(occ, 1, Accepted(occ, iterator))

\* rule.between(after, before, inc, iterator)
between(rule, after, before, inc, iterator) ==
  LET occ == SelectSeq(Occurrences(rule),
                       LAMBDA t : IF inc THEN after <= t /\ t <= before
                                  ELSE after < t /\ t < before)
  IN  SubSeq(occ, 1, Accepted(occ, iterator))

\* rule.after(date, inc): the first occurrence after the date, or null
after(rule, date, inc) ==
  LET occ == SelectSeq(Occurrences(rule), LAMBDA t : IF inc THEN t >= date ELSE t > date)
  IN  IF occ = <<>> THEN <<>> ELSE <<occ[1]>>

\* rule.before(date, inc): the last occurrence before the date, or null
before(rule, date, inc) ==
  LET occ == SelectSeq(Occurrences(rule), LAMBDA t : IF inc THEN t <= date ELSE t < date)
  IN  IF occ = <<>> THEN <<>> ELSE <<occ[Len(occ)]>>

\* Date.toISOString: the civil fields of an instant
toISOString(t) == <<2024, MonthOf(t), MonthDayOf(t), HourOf(t), MinuteOf(t), SecondOf(t)>>

(***************************************************************************)
(* src/pack.ts                                                             *)
(***************************************************************************)
MAX_CONSUMED_RECURRENCES == 1000

\* the empty string
BLANK == <<>>

UserVisibleError(message) == [name |-> "UserVisibleError", message |-> message]

ParameterNames ==
  {"frequency", "dtstart", "interval", "wkst", "count", "until", "timezone", "bysetpos",
   "bymonth", "bymonthday", "byyearday", "byweekno", "byweekday", "byhour", "byminute",
   "bysecond"}

\* the outcomes of the conversions of the options literal, in the order in
\* which it evaluates them
Conversions(p) ==
  (IF p.frequency # Undefined THEN <<convertFrequencyStringToRRuleConstant(p.frequency[1])>>
   ELSE <<>>)
  \o (IF p.wkst # Undefined THEN <<convertUserWeekdayStringToRRuleConstant(p.wkst[1])>>
      ELSE <<>>)
  \o (IF p.bymonth # Undefined
      THEN [i \in DOMAIN p.bymonth[1] |-> convertUserMonthStringToRRuleConstant(p.bymonth[1][i])]
      ELSE <<>>)
  \o (IF p.byweekday # Undefined
      THEN [i \in DOMAIN p.byweekday[1] |-> convertUserByWeekdayToRRuleConstant(p.byweekday[1][i])]
      ELSE <<>>)

\* the error of the first conversion that throws, if any
FirstFailure(outcomes) ==
  LET bad == {i \in DOMAIN outcomes : ~outcomes[i].ok}
  IN  IF bad = {} THEN <<>> ELSE <<outcomes[CHOOSE i \in bad : \A j \in bad : i <= j].error>>

\* the options literal of CreateRRule and ModifyRRule when no conversion
\* throws (CreateRRule always has a frequency)
OptionsLiteral(p) ==
  [freq |-> IF p.frequency # Undefined
            THEN convertFrequencyStringToRRuleConstant(p.frequency[1]).value ELSE Undefined,
   dtstart |-> p.dtstart,
   interval |-> p.interval,
   wkst |-> IF p.wkst # Undefined
            THEN convertUserWeekdayStringToRRuleConstant(p.wkst[1]).value ELSE Undefined,
   count |-> p.count,
   until |-> p.until,
   tzid |-> p.timezone,
   bysetpos |-> p.bysetpos,
   bymonth |-> IF p.bymonth # Undefined
               THEN <<[i \in DOMAIN p.bymonth[1] |->
                        convertUserMonthStringToRRuleConstant(p.bymonth[1][i]).value[1]]>>
               ELSE Undefined,
   bymonthday |-> p.bymonthday,
   byyearday |-> p.byyearday,
   byweekno |-> p.byweekno,
   byweekday |-> IF p.byweekday # Undefined
                 THEN <<[i \in DOMAIN p.byweekday[1] |->
                          convertUserByWeekdayToRRuleConstant(p.byweekday[1][i]).value[1]]>>
                 ELSE Undefined,
   byhour |-> p.byhour,
   byminute |-> p.byminute,
   bysecond |-> p.bysecond]

\* the catch clause of the options literal
Caught(e) == IF e.name = "CouldNotConvertError" THEN UserVisibleError(e.message) ELSE e

\* a CreateRRule that renders its options without constructing the rule
CreateRRuleUnvalidated(p, clock) ==
  LET failure == FirstFailure(Conversions(p))
  IN  IF failure # <<>> THEN Throw(Caught(failure[1]))
      ELSE escapeControlCodes(toString([origOptions |-> deleteUndefinedProps(OptionsLiteral(p))]))

\* CreateRRule.execute at the time clock
CreateRRule(p, clock) ==
  LET failure == FirstFailure(Conversions(p))
  IN  IF failure # <<>> THEN Throw(Caught(failure[1]))
      ELSE LET rule == RRule(deleteUndefinedProps(OptionsLiteral(p)), clock)
           IN  IF rule.ok THEN escapeControlCodes(toString(rule.value[1])) ELSE rule

\* the first lines of every formula that takes a rule string: the rule, a
\* user-visible error of rrulestr, or the error of unescapeControlCodes
RuleOf(rrule, clock) ==
  LET unescapedRRule == unescapeControlCodes(rrule)
  IN  IF ~unescapedRRule.ok THEN unescapedRRule
      ELSE LET rule == rrulestr(unescapedRRule.value[1], clock)
           IN  IF rule.ok THEN rule ELSE Throw(UserVisibleError(rule.error.message))

\* ModifyRRule.execute at the time clock
ModifyRRule(rrule, p, clock) ==
  LET parsed == RuleOf(rrule, clock)
      failure == FirstFailure(Conversions(p))
  IN  IF ~parsed.ok THEN parsed
      ELSE IF failure # <<>> THEN Throw(Caught(failure[1]))
      ELSE LET options == Spread(parsed.value[1].origOptions,
                                 deleteUndefinedProps(OptionsLiteral(p)))
               rule == RRule(options, clock)
           IN  IF rule.ok THEN escapeControlCodes(toString(rule.value[1])) ELSE rule

\* a stop predicate that accepts one occurrence too many
LimitOffByOne(limit) == [date \in Instants, i \in Instants |-> i <= limit]

\* (limit) => (date, i) => i < limit
limitingIterator(limit) == [date \in Instants, i \in Instants |-> i < limit]

\* a limit that is not capped
LimitUncapped(limit) == IF limit = Undefined THEN 100 ELSE limit[1]

\* the default of the limit parameter and the silent cap
Limit(limit) == Min(IF limit = Undefined THEN 100 ELSE limit[1], MAX_CONSUMED_RECURRENCES)

Dates(occ) == [i \in DOMAIN occ |-> toISOString(occ[i])]

\* All.execute
All(rrule, limit, clock) ==
  LET rule == RuleOf(rrule, clock)
  IN  IF ~rule.ok THEN rule
      ELSE Return(Dates(all(rule.value[1], limitingIterator(Limit(limit)))))

\* Between.execute
Between(rrule, after_, before_, limit, include, clock) ==
  LET rule == RuleOf(rrule, clock)
      inc == IF include = Undefined THEN FALSE ELSE include[1]
  IN  IF ~rule.ok THEN rule
      ELSE Return(Dates(between(rule.value[1], after_, before_, inc,
                                limitingIterator(Limit(limit)))))

\* a First that reads the first element of an empty array
FirstUnguarded(rrule, clock) ==
  LET rule == RuleOf(rrule, clock)
  IN  IF ~rule.ok THEN rule
      ELSE LET occ == Occurrences(rule.value[1])
           IN  IF Len(occ) > 0 THEN Return(toISOString(occ[1])) ELSE Throw(TypeError)

\* First.execute: rule.all() is the full sequence
First(rrule, clock) ==
  LET rule == RuleOf(rrule, clock)
  IN  IF ~rule.ok THEN rule
      ELSE LET occ == Occurrences(rule.value[1])
           IN  IF Len(occ) > 0 THEN Return(toISOString(occ[1])) ELSE Return(BLANK)

\* the occurrences that a call of rule.all() in First.execute generates: it
\* passes no stop predicate, so the generator runs to the end of the rule
FirstGenerated(rrule, clock) ==
  LET rule == RuleOf(rrule, clock)
  IN  IF ~rule.ok THEN 0 ELSE Len(all(rule.value[1], [date \in Instants, i \in Instants |-> TRUE]))

\* After.execute
After(rrule, date, include, clock) ==
  LET rule == RuleOf(rrule, clock)
      result == after(rule.value[1], date, IF include = Undefined THEN FALSE ELSE include[1])
  IN  IF ~rule.ok THEN rule
      ELSE IF result # <<>> THEN Return(toISOString(result[1])) ELSE Return(BLANK)

\* Before.execute
Before(rrule, date, include, clock) ==
  LET rule == RuleOf(rrule, clock)
      result == before(rule.value[1], date, IF include = Undefined THEN FALSE ELSE include[1])
  IN  IF ~rule.ok THEN rule
      ELSE IF result # <<>> THEN Return(toISOString(result[1])) ELSE Return(BLANK)

(***************************************************************************)
(* Tokens of the parameters.                                               *)
(***************************************************************************)
T_Secondly == <<"S", "e", "c", "o", "n", "d", "l", "y">>

T_MINUTELY == <<"M", "I", "N", "U", "T", "E", "L", "Y">>

T_daily == <<" ", "d", "a", "i", "l", "y">>

T_yearl == <<"y", "e", "a", "r", "l">>

T_SU == <<"S", "U">>

T_mon == <<"m", "o", "n">>

T_1 == <<"1">>

T_Feb == <<"F", "e", "b">>

T_mar == <<"m", "a", "r">>

T_mo == <<"m", "o">>

T_Tuesday == <<"T", "u", "e", "s", "d", "a", "y">>

T_m1FR == <<"-", "1", "F", "R">>

(***************************************************************************)
(* The formulas as a state machine.  A document holds one rule string in   *)
(* a cell; CreateRRule and ModifyRRule write the cell and the queries read  *)
(* it, each at the time of the clock.                                      *)
(***************************************************************************)
MaxSupplied == 2

NoParameters == [k \in ParameterNames |-> Undefined]

NoEdit == [name |-> "none", rrule |-> <<>>, params |-> NoParameters, outcome |-> NoOutcome]

NoArguments ==
  [limit |-> Undefined, after |-> Undefined, before |-> Undefined, date |-> Undefined,
   include |-> Undefined]

NoQuery == [name |-> "none", args |-> NoArguments, at |-> 0, outcome |-> NoOutcome]

\* the values a user gives to a parameter
Samples ==
  [frequency |-> {T_Secondly, T_daily, T_yearl},
   dtstart |-> {2},
   interval |-> {2, 1},
   wkst |-> {T_SU, T_mon},
   count |-> {3},
   until |-> {5},
   timezone |-> {"UTC"},
   bysetpos |-> {<<1>>},
   bymonth |-> {<<T_1, T_Feb>>, <<T_mar>>},
   bymonthday |-> {<<1, -31>>},
   byyearday |-> {<<1>>},
   byweekno |-> {<<1>>},
   byweekday |-> {<<T_mo, T_Tuesday>>, <<T_m1FR>>},
   byhour |-> {<<0>>, <<24>>},
   byminute |-> {<<0, 30>>},
   bysecond |-> {<<0, 30>>}]

Given(k, keys) == IF k \in keys THEN {<<v>> : v \in Samples[k]} ELSE {Undefined}

\* the calls that give exactly the parameters keys
ParametersGiving(keys) ==
  [frequency : Given("frequency", keys), dtstart : Given("dtstart", keys),
   interval : Given("interval", keys), wkst : Given("wkst", keys),
   count : Given("count", keys), until : Given("until", keys),
   timezone : Given("timezone", keys), bysetpos : Given("bysetpos", keys),
   bymonth : Given("bymonth", keys), bymonthday : Given("bymonthday", keys),
   byyearday : Given("byyearday", keys), byweekno : Given("byweekno", keys),
   byweekday : Given("byweekday", keys), byhour : Given("byhour", keys),
   byminute : Given("byminute", keys), bysecond : Given("bysecond", keys)]

\* CreateRRule with its frequency and at most MaxSupplied of these parameters
CreateKeys == {"dtstart", "interval", "count", "until", "bymonth"}

CreateInputs ==
  UNION {ParametersGiving(keys \cup {"frequency"}) :
           keys \in {s \in SUBSET CreateKeys : Cardinality(s) <= MaxSupplied}}

\* ModifyRRule with at most MaxSupplied of these parameters
ModifyKeys ==
  {"frequency", "dtstart", "interval", "wkst", "count", "until", "timezone", "bymonth",
   "byweekday", "byhour"}

ModifyInputs ==
  UNION {ParametersGiving(keys) :
           keys \in {s \in SUBSET ModifyKeys : Cardinality(s) <= MaxSupplied}}

\* rule strings typed by hand
RichRule ==
  <<Component("DTSTART", 2), Component("TZID", "UTC"), Char("\\"), Char("n"),
    Component("FREQ", "MINUTELY"), Component("INTERVAL", 3), Component("COUNT", 4),
    Component("WKST", Weekday("SU")), Component("BYSETPOS", <<1>>), Component("BYMONTH", <<1>>),
    Component("BYMONTHDAY", <<1>>), Component("BYYEARDAY", <<1>>), Component("BYWEEKNO", <<1>>),
    Component("BYDAY", <<Weekday("MO")>>), Component("BYHOUR", <<0>>),
    Component("BYMINUTE", <<0, 1, 2>>), Component("BYSECOND", <<0, 20, 40>>)>>

TypedRules ==
  {<<>>,
   RichRule,
   <<Component("FREQ", "SECONDLY"), Component("UNTIL", 7)>>,
   <<Component("FREQ", "DAILY"), Component("COUNT", 3), Component("UNTIL", 5)>>,
   <<Component("FREQ", "DAILY"), Component("COLOUR", 1)>>,
   <<Component("FREQ", "DAILY"), Malformed("COUNT")>>,
   <<Component("DTSTART", 2), Char("\n"), Component("FREQ", "MINUTELY")>>}

Written(name, rrule, p, outcome) ==
  /\ edit' = [name |-> name, rrule |-> rrule, params |-> p, outcome |-> outcome]
  /\ cell' = IF outcome.ok THEN outcome.value ELSE cell
  /\ UNCHANGED <<now, query, convVars>>

InitEdit ==
  /\ now = 0
  /\ cell \in {<<>>} \cup {<<s>> : s \in TypedRules}
  /\ edit = NoEdit
  /\ query = NoQuery
  /\ conv = "none" /\ input = NoInput /\ token = <<>> /\ out = NoOutcome

\* a user calls CreateRRule in an empty cell
CreateRRuleCall ==
  /\ cell = <<>>
  /\ \E p \in CreateInputs : Written("CreateRRule", <<>>, p, CreateRRule(p, now))

\* a user calls ModifyRRule on the rule string of the cell, once
ModifyRRuleCall ==
  /\ cell # <<>>
  /\ edit.name # "ModifyRRule"
  /\ \E p \in ModifyInputs : Written("ModifyRRule", cell, p, ModifyRRule(cell[1], p, now))

NextEdit == CreateRRuleCall \/ ModifyRRuleCall

SpecEdit == InitEdit /\ [][NextEdit]_vars

\* the rules whose occurrences the queries read
QueriedInputs ==
  [frequency : {<<T_Secondly>>, <<T_MINUTELY>>}, dtstart : {Undefined, <<2>>},
   interval : {Undefined}, wkst : {Undefined}, count : {Undefined, <<0>>, <<3>>},
   until : {Undefined, <<5>>}, timezone : {Undefined}, bysetpos : {Undefined},
   bymonth : {Undefined}, bymonthday : {Undefined}, byyearday : {Undefined},
   byweekno : {Undefined}, byweekday : {Undefined}, byhour : {Undefined},
   byminute : {Undefined}, bysecond : {Undefined}]

Limits == {Undefined, <<-1>>, <<0>>, <<2>>, <<MAX_CONSUMED_RECURRENCES>>,
           <<MAX_CONSUMED_RECURRENCES + 1>>}

Includes == {Undefined, <<TRUE>>}

Thresholds == {0, 3, Horizon}

AllArguments == [limit : Limits, after : {Undefined}, before : {Undefined},
                 date : {Undefined}, include : {Undefined}]

BetweenArguments ==
  [limit : {Undefined, <<2>>, <<MAX_CONSUMED_RECURRENCES + 1>>},
   after : {<<0>>, <<3>>}, before : {<<4>>, <<Horizon>>}, date : {Undefined},
   include : Includes]

DateArguments == [limit : {Undefined}, after : {Undefined}, before : {Undefined},
                  date : {<<d>> : d \in Thresholds}, include : Includes]

Init ==
  /\ now = 0
  /\ cell \in {<<>>} \cup {<<s>> : s \in TypedRules}
  /\ edit = NoEdit
  /\ query = NoQuery
  /\ conv = "none" /\ input = NoInput /\ token = <<>> /\ out = NoOutcome

\* the clock advances
Tick ==
  /\ now < MaxClock
  /\ now' = now + 1
  /\ UNCHANGED <<cell, edit, query, convVars>>

\* a user calls CreateRRule in an empty cell
CreateRRuleQueried ==
  /\ cell = <<>>
  /\ \E p \in QueriedInputs : Written("CreateRRule", <<>>, p, CreateRRule(p, now))

\* a formula reads the cell; the document evaluates the same formula again
\* when the clock has advanced
Asked(name, a) ==
  /\ cell # <<>>
  /\ query.name = "none" \/ (query.name = name /\ query.args = a)

Answered(name, a, outcome) ==
  /\ query' = [name |-> name, args |-> a, at |-> now, outcome |-> outcome]
  /\ UNCHANGED <<now, cell, edit, convVars>>

AllCall ==
  \E a \in AllArguments :
    Asked("All", a) /\ Answered("All", a, All(cell[1], a.limit, now))

BetweenCall ==
  \E a \in BetweenArguments :
    /\ Asked("Between", a)
    /\ Answered("Between", a, Between(cell[1], a.after[1], a.before[1], a.limit, a.include, now))

FirstCall == Asked("First", NoArguments) /\ Answered("First", NoArguments, First(cell[1], now))

AfterCall ==
  \E a \in DateArguments :
    Asked("After", a) /\ Answered("After", a, After(cell[1], a.date[1], a.include, now))

BeforeCall ==
  \E a \in DateArguments :
    Asked("Before", a) /\ Answered("Before", a, Before(cell[1], a.date[1], a.include, now))

Next ==
  \/ Tick
  \/ CreateRRuleQueried
  \/ AllCall
  \/ BetweenCall
  \/ FirstCall
  \/ AfterCall
  \/ BeforeCall

Spec == Init /\ [][Next]_vars


(***************************************************************************)
(* The escaping helpers on their own: a string is escaped, and the escaped *)
(* string is unescaped.                                                    *)
(***************************************************************************)
MaxLen == 3

Alphabet ==
  {Char("a"), Char("n"), Char("\n"), Char("\t"), Char("\""), Char("\\"), LineSeparator,
   Component("FREQ", "DAILY")}

Strings == UNION {[1..n -> Alphabet] : n \in 0..MaxLen}

InitEscape ==
  /\ now = 0
  /\ cell \in {<<s>> : s \in Strings}
  /\ edit = NoEdit
  /\ query = NoQuery
  /\ conv = "none" /\ input = NoInput /\ token = <<>> /\ out = NoOutcome

\* escapeControlCodes(s) on the string of the cell
EscapeCall ==
  /\ edit.name = "none"
  /\ edit' = [name |-> "escapeControlCodes", rrule |-> cell, params |-> NoParameters,
              outcome |-> escapeControlCodes(cell[1])]
  /\ UNCHANGED <<now, cell, query, convVars>>

\* unescapeControlCodes on the escaped string
UnescapeCall ==
  /\ edit.name = "escapeControlCodes" /\ edit.outcome.ok
  /\ query.name = "none"
  /\ query' = [name |-> "unescapeControlCodes", args |-> NoArguments, at |-> now,
               outcome |-> unescapeControlCodes(edit.outcome.value[1])]
  /\ UNCHANGED <<now, cell, edit, convVars>>

NextEscape == EscapeCall \/ UnescapeCall

SpecEscape == InitEscape /\ [][NextEscape]_vars

(***************************************************************************)
(* Properties of the formulas.                                             *)
(***************************************************************************)
Max(a, b) == IF a >= b THEN a ELSE b

\* the limit a query asked for, 100 when it gave none
Requested == IF query.args.limit = Undefined THEN 100 ELSE query.args.limit[1]

\* the rule of the cell as the answered query read it
Read == RuleOf(cell[1], query.at)

Sets(rrule, k) ==
  \E i \in DOMAIN rrule :
    /\ rrule[i].kind = "component" /\ rrule[i].text \in DOMAIN GrammarKeys
    /\ GrammarKeys[rrule[i].text] = k

\* the option key k is set by the call of the edit: by a parameter, or for
\* ModifyRRule by the rule string it was given
Asks(k) ==
  \/ edit.params[k] # Undefined
  \/ edit.name = "ModifyRRule" /\ Sets(edit.rrule[1], k)

CreatedWithoutAnchor ==
  edit.name = "CreateRRule" /\ edit.outcome.ok /\ edit.params.dtstart = Undefined

\* C8: a query of a rule that CreateRRule made without dtstart, asked again at
\* another time of the clock, returns the same occurrences.
C8_QueriesReproducible ==
  [][(CreatedWithoutAnchor /\ query.name # "none" /\ query'.name = query.name
        /\ query'.args = query.args)
       => query'.outcome = query.outcome]_vars

\* the parameter that sets the option key k
ParameterOf(k) == CASE k = "freq" -> "frequency" [] k = "tzid" -> "timezone" [] OTHER -> k

\* the value of the option key k in the options o, the defaults that the
\* rendering leaves out standing for themselves
Normalized(o, k) ==
  IF Has(o, k) THEN o[k]
  ELSE CASE k = "interval" -> <<1>> [] k = "wkst" -> <<Weekday("MO")>> [] OTHER -> Undefined

Later(occ, date, inc) == {i \in DOMAIN occ : IF inc THEN occ[i] >= date ELSE occ[i] > date}

Earlier(occ, date, inc) == {i \in DOMAIN occ : IF inc THEN occ[i] <= date ELSE occ[i] < date}

Inclusive == query.args.include = <<TRUE>>

Unbounded == ~Has(Read.value[1].origOptions, "count") /\ ~Has(Read.value[1].origOptions, "until")

\* C11: First of a rule without COUNT and UNTIL never generates more than
\* 1000 occurrences of the rule while it computes its result.
C11_FirstBoundedWork ==
  (query.name = "First" /\ Read.ok /\ Unbounded)
    => FirstGenerated(cell[1], query.at) <= MAX_CONSUMED_RECURRENCES

\* C12: All returns exactly the occurrences of the rule whose 0-based index is
\* less than min(limit, 1000), in order, and none when limit <= 0; the stop
\* predicate accepts the occurrence i if and only if i < min(limit, 1000).
C12_AllIsLimitedPrefix ==
  (query.name = "All" /\ Read.ok) =>
    LET occ == Occurrences(Read.value[1])
        n == Min(Requested, MAX_CONSUMED_RECURRENCES)
    IN  /\ query.outcome = Return(Dates(SubSeq(occ, 1, Max(0, Min(n, Len(occ))))))
        /\ \A i \in 0..(MAX_CONSUMED_RECURRENCES + 1) :
             limitingIterator(Limit(query.args.limit))[0, i] <=> i < n

\* C12 witness: All with the limit 2 returned the first two of more than two
\* occurrences
C12_Witness ==
  /\ query.name = "All" /\ query.args.limit = <<2>> /\ Read.ok
  /\ Len(Occurrences(Read.value[1])) > 2
  /\ query.outcome.ok /\ Len(query.outcome.value[1]) = 2

\* C13: a formula either returns a result or fails with a user-visible
\* error; no error of another type reaches the caller.
C13_OnlyUserVisibleErrors ==
  /\ (edit.name # "none" /\ ~edit.outcome.ok) => edit.outcome.error.name = "UserVisibleError"
  /\ (query.name # "none" /\ ~query.outcome.ok) => query.outcome.error.name = "UserVisibleError"

\* the tokens that name one weekday
WeekdayTokens ==
  {WeekdayNames[d] : d \in 1..7} \cup {WeekdayAbbreviations[d] : d \in 1..7}
    \cup {NumericCodes[d] : d \in 1..7}

\* the text of the input is a signed integer or nothing, and then one weekday
\* token
PrefixedWeekday == \E p \in Prefixes : \E w \in WeekdayTokens : Literal = p \o w

\* C14: the byweekday converter fails with CouldNotConvertError for every
\* token that is not an optional signed integer followed by exactly one
\* weekday token.
C14_MalformedByWeekdayRejected ==
  (conv = "byweekday" /\ ~PrefixedWeekday) => Failed("CouldNotConvertError")

\* the control characters of the strings
ControlCharacters == {Char("\n"), Char("\t"), Char("\r"), Char("\f")}

\* C15: escapeControlCodes(s) holds no raw control character, and
\* unescapeControlCodes(escapeControlCodes(s)) = s, for every string s.
C15_EscapeRoundTrip ==
  /\ edit.name = "escapeControlCodes"
       => /\ edit.outcome.ok
          /\ \A i \in DOMAIN edit.outcome.value[1] :
               edit.outcome.value[1][i] \notin ControlCharacters
  /\ query.name = "unescapeControlCodes" => query.outcome = Return(cell[1])
====
